---- MODULE Spec2Model ----
(***************************************************************************)
(* Farkle rules engine (farkle_ai.game) and the environment loop that      *)
(* drives it (farkle_ai.environment).                                      *)
(*                                                                         *)
(* A GameState is a record; its player_scores field is a REFERENCE into    *)
(* `heap`, because the Python GameState holds a list object that several   *)
(* GameState values share.  Exceptions are results with err /= "none".     *)
(***************************************************************************)
EXTENDS Integers, Sequences, FiniteSets, TLC

\* ---------------------------------------------------------------- bounds
\* score_to_win handed to Parameters by the caller.
ScoreToWin == 50
\* No transition is taken from a state whose turn counter exceeds this.
MaxTurn == 1
\* No transition is taken from a state whose turn score exceeds this.
MaxTurnScore == 50
\* No transition is taken from a state in which a banked score exceeds this.
MaxScore == 50
\* Number of list cells of the heap.
NumRefs == 2

\* ------------------------------------------------------------- constants
DEFAULT_PLAYER_COUNT == 2
MAX_DICE_COUNT == 6
MAX_DIE_VALUE == 6
\* Python's None for GameState.winner.
None == -1

\* ----------------------------------------------------------------- rules
ScoringPattern(pattern, score) == [pattern |-> pattern, score |-> score]

BASE_SCORING_PATTERNS ==
    << ScoringPattern(<<1, 1, 1, 1, 1, 1>>, 8000),
       ScoringPattern(<<2, 2, 2, 2, 2, 2>>, 1600),
       ScoringPattern(<<3, 3, 3, 3, 3, 3>>, 2400),
       ScoringPattern(<<4, 4, 4, 4, 4, 4>>, 3200),
       ScoringPattern(<<5, 5, 5, 5, 5, 5>>, 4000),
       ScoringPattern(<<6, 6, 6, 6, 6, 6>>, 4800),
       ScoringPattern(<<1, 1, 1, 1, 1>>, 4000),
       ScoringPattern(<<2, 2, 2, 2, 2>>, 800),
       ScoringPattern(<<3, 3, 3, 3, 3>>, 1200),
       ScoringPattern(<<4, 4, 4, 4, 4>>, 1600),
       ScoringPattern(<<5, 5, 5, 5, 5>>, 2000),
       ScoringPattern(<<6, 6, 6, 6, 6>>, 2400),
       ScoringPattern(<<1, 1, 1, 1>>, 2000),
       ScoringPattern(<<2, 2, 2, 2>>, 400),
       ScoringPattern(<<3, 3, 3, 3>>, 600),
       ScoringPattern(<<4, 4, 4, 4>>, 800),
       ScoringPattern(<<5, 5, 5, 5>>, 1000),
       ScoringPattern(<<6, 6, 6, 6>>, 1200),
       ScoringPattern(<<1, 2, 3, 4, 5, 6>>, 1500),
       ScoringPattern(<<1, 2, 3, 4, 5>>, 500),
       ScoringPattern(<<2, 3, 4, 5, 6>>, 750),
       ScoringPattern(<<1, 1, 1>>, 1000),
       ScoringPattern(<<2, 2, 2>>, 200),
       ScoringPattern(<<3, 3, 3>>, 300),
       ScoringPattern(<<4, 4, 4>>, 400),
       ScoringPattern(<<5, 5, 5>>, 500),
       ScoringPattern(<<6, 6, 6>>, 600),
       ScoringPattern(<<1>>, 100),
       ScoringPattern(<<5>>, 50) >>

\* Python's sorted() on a sequence of integers (insertion sort).
RECURSIVE sorted(_)
sorted(s) ==
    IF s = <<>> THEN <<>>
    ELSE LET rest == sorted(Tail(s))
             x == Head(s)
             k == Cardinality({i \in DOMAIN rest : rest[i] <= x})
         IN SubSeq(rest, 1, k) \o <<x>> \o SubSeq(rest, k + 1, Len(rest))

\* collections.Counter of a tuple: value -> number of occurrences.
Counter(dice) ==
    [v \in {dice[i] : i \in DOMAIN dice} |->
        Cardinality({i \in DOMAIN dice : dice[i] = v})]

\* Counter.subtract keeps zero and negative counts.
subtract_patterns(rolled_dice, pattern) ==
    LET a == Counter(rolled_dice)
        b == Counter(pattern)
    IN [v \in DOMAIN a \cup DOMAIN b |->
          (IF v \in DOMAIN a THEN a[v] ELSE 0)
          - (IF v \in DOMAIN b THEN b[v] ELSE 0)]

\* Faulty variant: a die value used up exactly counts as missing.
are_dice_valid_positive(dice) == \A v \in DOMAIN dice : dice[v] > 0

are_dice_valid(dice) == \A v \in DOMAIN dice : dice[v] >= 0

\* Faulty variant: the pattern is asked to contain the roll.
contains_pattern_swapped(a, b) == are_dice_valid(subtract_patterns(b, a))

contains_pattern(a, b) == are_dice_valid(subtract_patterns(a, b))

\* A Python dict keyed by pattern, as the sequence of its items in insertion
\* order: dict.get and dict.__setitem__.
DictHas(d, k) == \E i \in DOMAIN d : d[i].pattern = k

DictGet(d, k, default) ==
    IF DictHas(d, k)
    THEN d[CHOOSE i \in DOMAIN d : d[i].pattern = k].score
    ELSE default

DictSet(d, k, v) ==
    IF DictHas(d, k)
    THEN [d EXCEPT ![CHOOSE i \in DOMAIN d : d[i].pattern = k].score = v]
    ELSE Append(d, ScoringPattern(k, v))

\* The defaultdict dp: `order` is the order in which its keys were created.
DpTouch(dp, count) ==
    IF \E i \in DOMAIN dp.order : dp.order[i] = count
    THEN dp
    ELSE [dp EXCEPT !.order = Append(@, count)]

RECURSIVE DpSeed(_, _)
DpSeed(dp, i) ==
    IF i > Len(BASE_SCORING_PATTERNS) THEN dp
    ELSE LET sp == BASE_SCORING_PATTERNS[i]
             count == Len(sp.pattern)
             dp1 == DpTouch(dp, count)
         IN DpSeed([dp1 EXCEPT !.tab[count] = DictSet(@, sp.pattern, sp.score)],
                   i + 1)

\* Faulty variant: a key keeps the first score it was given (`if pattern not
\* in dp[count]` in place of the comparison of scores).
DpCombine_first_sum(d, A, B) ==
    LET N == Len(A) * Len(B)
        pat(k) == sorted(A[((k - 1) \div Len(B)) + 1].pattern
                         \o B[((k - 1) % Len(B)) + 1].pattern)
        sum(k) == A[((k - 1) \div Len(B)) + 1].score
                  + B[((k - 1) % Len(B)) + 1].score
        pats == [k \in 1..N |-> pat(k)]
        first == {k \in 1..N : ~DictHas(d, pats[k])
                               /\ \A j \in 1..(k - 1) : pats[j] # pats[k]}
        nth(i) == CHOOSE k \in first : Cardinality({j \in first : j <= k}) = i
    IN d \o [i \in 1..Cardinality(first) |->
               ScoringPattern(pats[nth(i)], sum(nth(i)))]

\* Faulty variant: every sum replaces the score the key had (the comparison of
\* scores is left out), so a key ends with the last sum formed for it.
DpCombine_last_sum(d, A, B) ==
    LET N == Len(A) * Len(B)
        pat(k) == sorted(A[((k - 1) \div Len(B)) + 1].pattern
                         \o B[((k - 1) % Len(B)) + 1].pattern)
        sum(k) == A[((k - 1) \div Len(B)) + 1].score
                  + B[((k - 1) % Len(B)) + 1].score
        pats == [k \in 1..N |-> pat(k)]
        last(p, start) ==
            LET K == {k \in 1..N : pats[k] = p}
            IN IF K = {} THEN start
               ELSE sum(CHOOSE k \in K : \A j \in K : j <= k)
        first == {k \in 1..N : ~DictHas(d, pats[k])
                               /\ \A j \in 1..(k - 1) : pats[j] # pats[k]}
        nth(i) == CHOOSE k \in first : Cardinality({j \in first : j <= k}) = i
    IN [i \in 1..Len(d) |-> ScoringPattern(d[i].pattern, last(d[i].pattern, d[i].score))]
       \o [i \in 1..Cardinality(first) |->
             ScoringPattern(pats[nth(i)], last(pats[nth(i)], 0))]

\* The two innermost loops over dp[count_a] x dp[count_b], whose k-th pair is
\* (A[(k-1) div |B| + 1], B[(k-1) mod |B| + 1]).  "Replace when the sum is
\* greater" leaves every key with the maximum of the sums seen for it, and a
\* new key is inserted at the first pair that forms it.
DpCombine(d, A, B) ==
    LET N == Len(A) * Len(B)
        pat(k) == sorted(A[((k - 1) \div Len(B)) + 1].pattern
                         \o B[((k - 1) % Len(B)) + 1].pattern)
        sum(k) == A[((k - 1) \div Len(B)) + 1].score
                  + B[((k - 1) % Len(B)) + 1].score
        pats == [k \in 1..N |-> pat(k)]
        sums == [k \in 1..N |-> sum(k)]
        best(p, start) ==
            LET S == {sums[k] : k \in {j \in 1..N : pats[j] = p}} \cup {start}
            IN CHOOSE m \in S : \A n \in S : n <= m
        first == {k \in 1..N : ~DictHas(d, pats[k])
                               /\ \A j \in 1..(k - 1) : pats[j] # pats[k]}
        nth(i) == CHOOSE k \in first : Cardinality({j \in first : j <= k}) = i
    IN [i \in 1..Len(d) |-> ScoringPattern(d[i].pattern, best(d[i].pattern, d[i].score))]
       \o [i \in 1..Cardinality(first) |->
             ScoringPattern(pats[nth(i)], best(pats[nth(i)], 0))]

\* Faulty variant: only count_a = 1 is tried (a pattern is only ever extended
\* by a single die).
RECURSIVE DpCountA_first_split(_, _, _)
DpCountA_first_split(dp, count, count_a) ==
    IF count_a > 1 \/ count_a > count \div 2 THEN dp
    ELSE LET count_b == count - count_a
             dp0 == DpTouch(dp, count_a)
             A == dp0.tab[count_a]
             dp1 == IF Len(A) > 0 THEN DpTouch(dp0, count_b) ELSE dp0
             B == dp1.tab[count_b]
             dp2 == IF Len(A) * Len(B) > 0 THEN DpTouch(dp1, count) ELSE dp1
         IN DpCountA_first_split([dp2 EXCEPT !.tab[count] = DpCombine(@, A, B)],
                                 count, count_a + 1)

RECURSIVE DpCountA(_, _, _)
DpCountA(dp, count, count_a) ==
    IF count_a > count \div 2 THEN dp
    ELSE LET count_b == count - count_a
             dp0 == DpTouch(dp, count_a)
             A == dp0.tab[count_a]
             dp1 == IF Len(A) > 0 THEN DpTouch(dp0, count_b) ELSE dp0
             B == dp1.tab[count_b]
             dp2 == IF Len(A) * Len(B) > 0 THEN DpTouch(dp1, count) ELSE dp1
         IN DpCountA([dp2 EXCEPT !.tab[count] = DpCombine(@, A, B)],
                     count, count_a + 1)

\* dp after the seeding loop over BASE_SCORING_PATTERNS, then after each
\* iteration of `for count in range(1, MAX_DICE_COUNT + 1)`.
dp_seed ==
    DpSeed([order |-> <<>>, tab |-> [c \in 1..MAX_DICE_COUNT |-> <<>>]], 1)
dp_count_1 == DpCountA(dp_seed, 1, 1)
dp_count_2 == DpCountA(dp_count_1, 2, 1)
dp_count_3 == DpCountA(dp_count_2, 3, 1)
dp_count_4 == DpCountA(dp_count_3, 4, 1)
dp_count_5 == DpCountA(dp_count_4, 5, 1)
dp_count_6 == DpCountA(dp_count_5, 6, 1)

RECURSIVE DpFlatten(_, _)
DpFlatten(dp, i) ==
    IF i > Len(dp.order) THEN <<>>
    ELSE dp.tab[dp.order[i]] \o DpFlatten(dp, i + 1)

\* The cached table, as the dict's items in iteration order.
scorable_patterns_table == DpFlatten(dp_count_6, 1)

\* dict.get(dice, 0): the key is the tuple as given, in the order given.
pattern_score(dice) == DictGet(scorable_patterns_table, dice, 0)

\* Faulty variant: only BASE_SCORING_PATTERNS are looked for, not their sums.
scorable_patterns_base_only(dice) ==
    SelectSeq(BASE_SCORING_PATTERNS,
              LAMBDA sp : contains_pattern(dice, sp.pattern))

scorable_patterns(dice) ==
    SelectSeq(scorable_patterns_table,
              LAMBDA sp : contains_pattern(dice, sp.pattern))

\* The best pattern per length.  by_length has MAX_DICE_COUNT slots, numbered
\* from 0 (slot i is by_length[i + 1] here), and the loop indexes it with
\* len(pattern): a pattern of MAX_DICE_COUNT dice is an IndexError.
RECURSIVE ByLengthLoop(_, _, _)
ByLengthLoop(by_length, patterns, i) ==
    IF i > Len(patterns) THEN [err |-> "none", val |-> by_length]
    ELSE LET sp == patterns[i]
             slot == Len(sp.pattern)
         IN IF slot >= Len(by_length)
            THEN [err |-> "IndexError", val |-> by_length]
            ELSE ByLengthLoop(IF sp.score > by_length[slot + 1].score
                              THEN [by_length EXCEPT ![slot + 1] = sp]
                              ELSE by_length,
                              patterns, i + 1)

scorable_patterns_by_length(dice) ==
    ByLengthLoop([i \in 1..MAX_DICE_COUNT |-> ScoringPattern(<<>>, 0)],
                 scorable_patterns(dice), 1)

\* farkle_ai.game.is_farkle: a roll with no scoring sub-pattern.
is_farkle(dice) == Len(scorable_patterns(dice)) = 0

\* ----------------------------------------------------------- dice source
\* What an rng can yield: rng.choice(size = n) is the first n values of one
\* of these streams.
DiceStreams ==
    << <<2, 3, 4, 6, 3, 2>>,
       <<1, 2, 3, 4, 5, 6>>,
       <<5, 1, 2, 2, 6, 3>>,
       <<1, 1, 1, 5, 5, 2>>,
       <<1, 1, 1, 1, 1, 1>> >>

\* The rngs of the environment, and those a direct caller of the engine uses.
EnvRngs == DOMAIN DiceStreams
Rngs == {1, 2, 5}

rng_choice(rng, max_die_value, size) ==
    SubSeq(DiceStreams[rng], 1, size)

\* ------------------------------------------------------------- TurnState
TurnState(next_roll_dice_count, score, rolled_dice, has_rolled, has_ended) ==
    [next_roll_dice_count |-> next_roll_dice_count,
     score |-> score,
     rolled_dice |-> rolled_dice,
     has_rolled |-> has_rolled,
     has_ended |-> has_ended]

\* A TurnState method's outcome: the new turn state, or the exception.
TsOk(ts) == [err |-> "none", ts |-> ts]
TsRaise(e, ts) == [err |-> e, ts |-> ts]

\* Faulty variant: the pattern is not looked for in the roll.
TurnState_select_pattern_unchecked(self, scoring_pattern, max_dice_count) ==
    IF self.has_ended THEN TsRaise("RuntimeError", self)
    ELSE IF ~self.has_rolled THEN TsRaise("RuntimeError", self)
    ELSE LET remaining_dice_count ==
                 Len(self.rolled_dice) - Len(scoring_pattern.pattern)
             new_dice_count ==
                 IF remaining_dice_count > 0 THEN remaining_dice_count
                 ELSE max_dice_count
         IN TsOk(TurnState(new_dice_count,
                           self.score + scoring_pattern.score,
                           self.rolled_dice, FALSE, FALSE))

\* Faulty variant: the pattern's score replaces the turn score.
TurnState_select_pattern_overwrite(self, scoring_pattern, max_dice_count) ==
    IF self.has_ended THEN TsRaise("RuntimeError", self)
    ELSE IF ~self.has_rolled THEN TsRaise("RuntimeError", self)
    ELSE IF Len(scoring_pattern.pattern) > Len(self.rolled_dice)
    THEN TsRaise("ValueError", self)
    ELSE IF ~contains_pattern(self.rolled_dice, scoring_pattern.pattern)
    THEN TsRaise("ValueError", self)
    ELSE LET remaining_dice_count ==
                 Len(self.rolled_dice) - Len(scoring_pattern.pattern)
             new_dice_count ==
                 IF remaining_dice_count > 0 THEN remaining_dice_count
                 ELSE max_dice_count
         IN TsOk(TurnState(new_dice_count, scoring_pattern.score,
                           self.rolled_dice, FALSE, FALSE))

\* Faulty variant: using every die leaves no die for the next roll.
TurnState_select_pattern_no_hot_dice(self, scoring_pattern, max_dice_count) ==
    IF self.has_ended THEN TsRaise("RuntimeError", self)
    ELSE IF ~self.has_rolled THEN TsRaise("RuntimeError", self)
    ELSE IF Len(scoring_pattern.pattern) > Len(self.rolled_dice)
    THEN TsRaise("ValueError", self)
    ELSE IF ~contains_pattern(self.rolled_dice, scoring_pattern.pattern)
    THEN TsRaise("ValueError", self)
    ELSE TsOk(TurnState(Len(self.rolled_dice) - Len(scoring_pattern.pattern),
                        self.score + scoring_pattern.score,
                        self.rolled_dice, FALSE, FALSE))

TurnState_select_pattern(self, scoring_pattern, max_dice_count) ==
    IF self.has_ended THEN TsRaise("RuntimeError", self)
    ELSE IF ~self.has_rolled THEN TsRaise("RuntimeError", self)
    ELSE IF Len(scoring_pattern.pattern) > Len(self.rolled_dice)
    THEN TsRaise("ValueError", self)
    ELSE IF ~contains_pattern(self.rolled_dice, scoring_pattern.pattern)
    THEN TsRaise("ValueError", self)
    ELSE LET remaining_dice_count ==
                 Len(self.rolled_dice) - Len(scoring_pattern.pattern)
             new_dice_count ==
                 IF remaining_dice_count > 0 THEN remaining_dice_count
                 ELSE max_dice_count
         IN TsOk(TurnState(new_dice_count,
                           self.score + scoring_pattern.score,
                           self.rolled_dice, FALSE, FALSE))

\* Faulty variant: a roll is allowed on a turn that has already rolled.
TurnState_roll_dice_rerolls(self, rng, max_dice_count, max_die_value) ==
    IF self.has_ended THEN TsRaise("RuntimeError", self)
    ELSE LET new_dice_count ==
                 IF self.next_roll_dice_count = 0 THEN max_dice_count
                 ELSE self.next_roll_dice_count
             new_rolled_dice == rng_choice(rng, max_die_value, new_dice_count)
         IN TsOk(TurnState(new_dice_count, self.score, new_rolled_dice,
                           TRUE, FALSE))

\* Faulty variant: every roll is of max_dice_count dice.
TurnState_roll_dice_all_dice(self, rng, max_dice_count, max_die_value) ==
    IF self.has_ended THEN TsRaise("RuntimeError", self)
    ELSE IF self.has_rolled THEN TsRaise("RuntimeError", self)
    ELSE TsOk(TurnState(max_dice_count, self.score,
                        rng_choice(rng, max_die_value, max_dice_count),
                        TRUE, FALSE))

\* Faulty variant: the turn is not marked as rolled.
TurnState_roll_dice_not_marked(self, rng, max_dice_count, max_die_value) ==
    IF self.has_ended THEN TsRaise("RuntimeError", self)
    ELSE IF self.has_rolled THEN TsRaise("RuntimeError", self)
    ELSE LET new_dice_count ==
                 IF self.next_roll_dice_count = 0 THEN max_dice_count
                 ELSE self.next_roll_dice_count
         IN TsOk(TurnState(new_dice_count, self.score,
                           rng_choice(rng, max_die_value, new_dice_count),
                           FALSE, FALSE))

TurnState_roll_dice(self, rng, max_dice_count, max_die_value) ==
    IF self.has_ended THEN TsRaise("RuntimeError", self)
    ELSE IF self.has_rolled THEN TsRaise("RuntimeError", self)
    ELSE LET new_dice_count ==
                 IF self.next_roll_dice_count = 0 THEN max_dice_count
                 ELSE self.next_roll_dice_count
             new_rolled_dice == rng_choice(rng, max_die_value, new_dice_count)
         IN TsOk(TurnState(new_dice_count, self.score, new_rolled_dice,
                           TRUE, FALSE))

\* Faulty variant: an ended turn can be passed again.
TurnState_pass_turn_on_ended(self) ==
    TsOk(TurnState(0, 0, <<>>, FALSE, TRUE))

\* Faulty variant: a pass keeps the turn score.
TurnState_pass_turn_keeps_score(self) ==
    IF self.has_ended THEN TsRaise("RuntimeError", self)
    ELSE TsOk(TurnState(0, self.score, <<>>, FALSE, TRUE))

TurnState_pass_turn(self) ==
    IF self.has_ended THEN TsRaise("RuntimeError", self)
    ELSE TsOk(TurnState(0, 0, <<>>, FALSE, TRUE))

\* Faulty variant: ending the turn resets the turn score.
TurnState_end_turn_resets_score(self) ==
    IF self.has_ended THEN TsRaise("RuntimeError", self)
    ELSE IF self.has_rolled THEN TsRaise("RuntimeError", self)
    ELSE TsOk(TurnState(0, 0, <<>>, FALSE, TRUE))

TurnState_end_turn(self) ==
    IF self.has_ended THEN TsRaise("RuntimeError", self)
    ELSE IF self.has_rolled THEN TsRaise("RuntimeError", self)
    ELSE TsOk(TurnState(0, self.score, <<>>, FALSE, TRUE))

\* ------------------------------------------------------------- GameState
VARIABLES
    state,   \* the GameState the caller holds
    heap,    \* the list objects: reference -> list of scores (<<>>: unused)
    call,    \* the last call: what was called, with what, how it ended, and
             \* the state it was given (with a copy of that state's scores)
    pc       \* where the caller is: "engine" for a direct caller of the
             \* engine, "rules" for one of the rules, "legal" for one that
             \* tries actions on a roll, else the position of FarkleEnv.reset
             \* / step

vars == <<state, heap, call, pc>>

Parameters(player_count, score_to_win, max_dice_count, max_die_value) ==
    [player_count |-> player_count,
     score_to_win |-> score_to_win,
     max_dice_count |-> max_dice_count,
     max_die_value |-> max_die_value]

\* GameState.__init__ with every field given; is_quit defaults to False.
GameState(parameters, turn_state, player_scores, current_player, winner, turn, is_quit) ==
    [parameters |-> parameters,
     turn_state |-> turn_state,
     player_scores |-> player_scores,
     current_player |-> current_player,
     winner |-> winner,
     turn |-> turn,
     is_quit |-> is_quit]

\* A GameState method's outcome: the new state and heap, or the exception.
Ok(s, h) == [err |-> "none", state |-> s, heap |-> h]
Raise(e, s, h) == [err |-> e, state |-> s, heap |-> h]

Refs == 1..NumRefs

\* A new list object: the lowest unused cell.
Alloc(h) == CHOOSE r \in DOMAIN h : h[r] = <<>> /\ \A q \in 1..(r - 1) : h[q] # <<>>

\* Faulty variant of list(xs): the same list object.
list_copy_shared(h, ref) == [ref |-> ref, heap |-> h]
\* list(xs): a new list with the same items.
list_copy(h, ref) ==
    LET r == Alloc(h) IN [ref |-> r, heap |-> [h EXCEPT ![r] = h[ref]]]

\* Cells no GameState in `live` refers to are unused.
Collect(h, live) == [r \in DOMAIN h |-> IF r \in live THEN h[r] ELSE <<>>]

\* GameState() with player_scores = None: a new list of zeros.
GameState_default(parameters, h) ==
    LET r == Alloc(h)
    IN Ok(GameState(parameters,
                    TurnState(parameters.max_dice_count, 0, <<>>, FALSE, FALSE),
                    r, 0, None, 0, FALSE),
          [h EXCEPT ![r] = [i \in 1..parameters.player_count |-> 0]])

GameState_select_pattern(self, scoring_pattern, h) ==
    LET t == TurnState_select_pattern(self.turn_state, scoring_pattern,
                                      MAX_DICE_COUNT)
    IN IF t.err # "none" THEN Raise(t.err, self, h)
       ELSE Ok(GameState(self.parameters, t.ts, self.player_scores,
                         self.current_player, self.winner, self.turn, FALSE), h)

GameState_roll_dice(self, rng, h) ==
    LET t == TurnState_roll_dice(self.turn_state, rng,
                                 self.parameters.max_dice_count,
                                 self.parameters.max_die_value)
    IN IF t.err # "none" THEN Raise(t.err, self, h)
       ELSE Ok(GameState(self.parameters, t.ts, self.player_scores,
                         self.current_player, self.winner, self.turn, FALSE), h)

\* Faulty variant: a pass banks the turn score as end_turn does.
GameState_pass_turn_banks(self, h) ==
    LET c == list_copy(h, self.player_scores)
        h1 == [c.heap EXCEPT ![c.ref][self.current_player + 1] =
                  @ + self.turn_state.score]
        t == TurnState_pass_turn(self.turn_state)
    IN IF t.err # "none" THEN Raise(t.err, self, h)
       ELSE Ok(GameState(self.parameters, t.ts, c.ref,
                         self.current_player, self.winner, self.turn, FALSE), h1)

GameState_pass_turn(self, h) ==
    LET t == TurnState_pass_turn(self.turn_state)
    IN IF t.err # "none" THEN Raise(t.err, self, h)
       ELSE Ok(GameState(self.parameters, t.ts, self.player_scores,
                         self.current_player, self.winner, self.turn, FALSE), h)

\* Faulty variant: the winner is declared only above score_to_win.
GameState_end_turn_gt(self, h) ==
    LET c == list_copy(h, self.player_scores)
        new_player_scores == c.ref
        h1 == [c.heap EXCEPT ![new_player_scores][self.current_player + 1] =
                  @ + self.turn_state.score]
        new_winner ==
            IF h1[new_player_scores][self.current_player + 1]
                  > self.parameters.score_to_win
            THEN self.current_player
            ELSE None
        t == TurnState_end_turn(self.turn_state)
    IN IF t.err # "none" THEN Raise(t.err, self, h1)
       ELSE Ok(GameState(self.parameters, t.ts, new_player_scores,
                         self.current_player, new_winner, self.turn, FALSE), h1)

\* Faulty variant: the turn score is added to the first player's entry.
GameState_end_turn_first_player(self, h) ==
    LET c == list_copy(h, self.player_scores)
        new_player_scores == c.ref
        h1 == [c.heap EXCEPT ![new_player_scores][1] = @ + self.turn_state.score]
        new_winner ==
            IF h1[new_player_scores][self.current_player + 1]
                  >= self.parameters.score_to_win
            THEN self.current_player
            ELSE None
        t == TurnState_end_turn(self.turn_state)
    IN IF t.err # "none" THEN Raise(t.err, self, h1)
       ELSE Ok(GameState(self.parameters, t.ts, new_player_scores,
                         self.current_player, new_winner, self.turn, FALSE), h1)

\* Faulty variant: the turn score is taken from every other player's score.
GameState_end_turn_takes_from_others(self, h) ==
    LET c == list_copy(h, self.player_scores)
        new_player_scores == c.ref
        h1 == [c.heap EXCEPT ![new_player_scores] =
                  [i \in DOMAIN @ |->
                      IF i = self.current_player + 1
                      THEN @[i] + self.turn_state.score
                      ELSE @[i] - self.turn_state.score]]
        new_winner ==
            IF h1[new_player_scores][self.current_player + 1]
                  >= self.parameters.score_to_win
            THEN self.current_player
            ELSE None
        t == TurnState_end_turn(self.turn_state)
    IN IF t.err # "none" THEN Raise(t.err, self, h1)
       ELSE Ok(GameState(self.parameters, t.ts, new_player_scores,
                         self.current_player, new_winner, self.turn, FALSE), h1)

GameState_end_turn(self, h) ==
    LET c == list_copy(h, self.player_scores)
        new_player_scores == c.ref
        h1 == [c.heap EXCEPT ![new_player_scores][self.current_player + 1] =
                  @ + self.turn_state.score]
        new_winner ==
            IF h1[new_player_scores][self.current_player + 1]
                  >= self.parameters.score_to_win
            THEN self.current_player
            ELSE None
        t == TurnState_end_turn(self.turn_state)
    IN IF t.err # "none" THEN Raise(t.err, self, h1)
       ELSE Ok(GameState(self.parameters, t.ts, new_player_scores,
                         self.current_player, new_winner, self.turn, FALSE), h1)

\* Faulty variant: the turn is started for the player who just played.
GameState_start_turn_same_player(self, h) ==
    Ok(GameState(self.parameters,
                 TurnState(MAX_DICE_COUNT, 0, <<>>, FALSE, FALSE),
                 self.player_scores, self.current_player, self.winner,
                 self.turn, FALSE), h)

\* Faulty variant: the next player's index is not wrapped around.
GameState_start_turn_no_wrap(self, h) ==
    LET new_turn_state == TurnState(MAX_DICE_COUNT, 0, <<>>, FALSE, FALSE)
        new_current_player == self.current_player + 1
    IN Ok(GameState(self.parameters, new_turn_state, self.player_scores,
                    new_current_player, self.winner,
                    IF new_current_player = 0 THEN self.turn + 1 ELSE self.turn,
                    FALSE), h)

\* Faulty variant: the turn counter goes up at every start of a turn.
GameState_start_turn_counts_every_turn(self, h) ==
    LET new_turn_state == TurnState(MAX_DICE_COUNT, 0, <<>>, FALSE, FALSE)
        new_current_player ==
            (self.current_player + 1) % self.parameters.player_count
    IN Ok(GameState(self.parameters, new_turn_state, self.player_scores,
                    new_current_player, self.winner, self.turn + 1, FALSE), h)

GameState_start_turn(self, h) ==
    LET new_turn_state == TurnState(MAX_DICE_COUNT, 0, <<>>, FALSE, FALSE)
        new_current_player ==
            (self.current_player + 1) % self.parameters.player_count
    IN Ok(GameState(self.parameters, new_turn_state, self.player_scores,
                    new_current_player, self.winner,
                    IF new_current_player = 0 THEN self.turn + 1 ELSE self.turn,
                    FALSE), h)

\* ---------------------------------------------------------------- engine
ContinueAction(pattern) == [type |-> "Continue", pattern |-> pattern]
BankAction(pattern) == [type |-> "Bank", pattern |-> pattern]
PassTurnAction == [type |-> "Pass", pattern |-> <<>>]
QuitAction == [type |-> "Quit", pattern |-> <<>>]

\* Faulty variant: the Bank of each scoring pattern is left out.
actions_continue_only(s) ==
    LET scoring_patterns == scorable_patterns(s.turn_state.rolled_dice)
    IN <<PassTurnAction>>
       \o [i \in 1..Len(scoring_patterns) |->
             ContinueAction(scoring_patterns[i].pattern)]

\* engine.actions: the permissible actions, in the order they are appended.
actions(s) ==
    LET scoring_patterns == scorable_patterns(s.turn_state.rolled_dice)
    IN <<PassTurnAction>>
       \o [i \in 1..(2 * Len(scoring_patterns)) |->
             IF i % 2 = 1
             THEN ContinueAction(scoring_patterns[(i + 1) \div 2].pattern)
             ELSE BankAction(scoring_patterns[i \div 2].pattern)]

\* One of the GameState calls apply_action makes, on the state so far; an
\* exception raised earlier has already ended apply_action.
ApplyStep(name, r, rng) ==
    IF r.err # "none" THEN r
    ELSE CASE name = "roll_dice" -> GameState_roll_dice(r.state, rng, r.heap)
           [] name = "end_turn" -> GameState_end_turn(r.state, r.heap)
           [] name = "pass_turn" -> GameState_pass_turn(r.state, r.heap)
           [] name = "start_turn" -> GameState_start_turn(r.state, r.heap)

\* apply_action: a Continue or Bank scores and selects the pattern first; then
\* Continue rolls, Bank ends the turn, starts the next and rolls, Pass passes
\* the turn, starts the next and rolls.  Any other action (QuitAction) matches
\* no branch and the state is returned as it came.
apply_action(s, action, rng, h) ==
    LET selected ==
            IF action.type \in {"Continue", "Bank"}
            THEN LET score == pattern_score(action.pattern)
                 IN IF score = 0 THEN Raise("ValueError", s, h)
                    ELSE GameState_select_pattern(
                             s, ScoringPattern(action.pattern, score), h)
            ELSE Ok(s, h)
    IN CASE action.type = "Continue" -> ApplyStep("roll_dice", selected, rng)
         [] action.type = "Bank" ->
              ApplyStep("roll_dice",
                  ApplyStep("start_turn",
                      ApplyStep("end_turn", selected, rng), rng), rng)
         [] action.type = "Pass" ->
              ApplyStep("roll_dice",
                  ApplyStep("start_turn",
                      ApplyStep("pass_turn", selected, rng), rng), rng)
         [] OTHER -> selected

\* ----------------------------------------------------------- environment
\* AbstractAction values.
CONTINUE_1 == 0
CONTINUE_6 == 5
BANK_1 == 6
BANK_6 == 11

AbstractAction_type(value) == IF value <= CONTINUE_6 THEN "continue" ELSE "bank"

AbstractAction_dice_count(value) ==
    IF AbstractAction_type(value) = "continue" THEN value + 1
    ELSE value - BANK_1 + 1

\* FarkleEnv.step up to its call of apply_action: the engine action it picks
\* for the agent's action (an int), given best_patterns_by_count.  An int that
\* is no AbstractAction is a ValueError, which step answers with a pass.
step_engine_action(best_patterns_by_count, action) ==
    IF action \notin CONTINUE_1..BANK_6 THEN PassTurnAction
    ELSE LET action_type == AbstractAction_type(action)
             dice_count_to_hold == AbstractAction_dice_count(action)
             candidate_pattern == best_patterns_by_count[dice_count_to_hold]
             is_valid_pattern_selected ==
                 /\ candidate_pattern.score > 0
                 /\ Len(candidate_pattern.pattern) = dice_count_to_hold
         IN IF is_valid_pattern_selected
            THEN IF action_type = "bank"
                 THEN BankAction(candidate_pattern.pattern)
                 ELSE ContinueAction(candidate_pattern.pattern)
            ELSE PassTurnAction

\* action_mask: one entry per AbstractAction value (mask[value + 1] here), 1
\* for CONTINUE_k and BANK_k when slot k - 1 of scorable_patterns_by_length
\* holds a scoring pattern of k dice.  An exception of
\* scorable_patterns_by_length is not caught.
action_mask(s) ==
    LET best_patterns_by_count ==
            scorable_patterns_by_length(s.turn_state.rolled_dice)
        is_valid_pattern_available(dice_count) ==
            LET scoring_pattern == best_patterns_by_count.val[dice_count]
            IN /\ scoring_pattern.score > 0
               /\ Len(scoring_pattern.pattern) = dice_count
    IN IF best_patterns_by_count.err # "none"
       THEN [err |-> best_patterns_by_count.err, val |-> <<>>]
       ELSE [err |-> "none",
             val |-> [v \in 1..(BANK_6 + 1) |->
                        IF is_valid_pattern_available(
                               AbstractAction_dice_count(v - 1))
                        THEN 1 ELSE 0]]

\* ---------------------------------------------------------------- inputs
\* The patterns a caller names in Continue / Bank / select_pattern.
PatternInputs ==
    { <<1>>, <<5>>, <<2>>, <<1, 2, 3, 4, 5, 6>>, <<1, 1, 1, 1, 1, 1>> }

ActionInputs ==
    {ContinueAction(p) : p \in PatternInputs}
    \cup {BankAction(p) : p \in PatternInputs}
    \cup {PassTurnAction, QuitAction}

\* The ints an agent hands to step: every AbstractAction and one that is none.
AbstractActionInputs == CONTINUE_1..(BANK_6 + 1)

\* --------------------------------------------------------------- actions
Scores(s) == heap[s.player_scores]

Bounded ==
    /\ state.turn <= MaxTurn
    /\ state.turn_state.score <= MaxTurnScore
    /\ \A i \in DOMAIN Scores(state) : Scores(state)[i] <= MaxScore

\* The heap a call starts with: only the state it is given is still held.
Heap0 == Collect(heap, {state.player_scores})

\* The caller calls something on `state` and gets r: it keeps the returned
\* state, or, on an exception, the state it had.  Only the lists of the state
\* kept and of the state the call was given stay in use; cells are renumbered
\* so that the former is cell 1 and the latter, when it is another list, cell 2.
Returns(op, action, r) ==
    LET post == IF r.err = "none" THEN r.state ELSE state
        same == post.player_scores = state.player_scores
    IN /\ state' = [post EXCEPT !.player_scores = 1]
       /\ heap' = [ref \in Refs |->
                     IF ref = 1 THEN r.heap[post.player_scores]
                     ELSE IF ref = 2 /\ ~same THEN r.heap[state.player_scores]
                     ELSE <<>>]
       /\ call' = [op |-> op, action |-> action, err |-> r.err,
                   pre |-> [state EXCEPT !.player_scores = IF same THEN 1 ELSE 2],
                   pre_scores |-> Scores(state)]

NoAction == [type |-> "none", pattern |-> <<>>]

Apply(action, rng) ==
    /\ pc = "engine"
    /\ Bounded
    /\ \E r \in {apply_action(state, action, rng, Heap0)} :
           Returns("apply", action, r)
    /\ UNCHANGED pc

SelectPattern(pattern) ==
    /\ pc = "engine"
    /\ Bounded
    /\ \E r \in {GameState_select_pattern(
                     state, ScoringPattern(pattern, pattern_score(pattern)), Heap0)} :
           Returns("select_pattern", [type |-> "none", pattern |-> pattern], r)
    /\ UNCHANGED pc

RollDice(rng) ==
    /\ pc = "engine"
    /\ Bounded
    /\ \E r \in {GameState_roll_dice(state, rng, Heap0)} :
           Returns("roll_dice", NoAction, r)
    /\ UNCHANGED pc

PassTurn ==
    /\ pc = "engine"
    /\ Bounded
    /\ \E r \in {GameState_pass_turn(state, Heap0)} :
           Returns("pass_turn", NoAction, r)
    /\ UNCHANGED pc

EndTurn ==
    /\ pc = "engine"
    /\ Bounded
    /\ \E r \in {GameState_end_turn(state, Heap0)} :
           Returns("end_turn", NoAction, r)
    /\ UNCHANGED pc

StartTurn ==
    /\ pc = "engine"
    /\ Bounded
    /\ \E r \in {GameState_start_turn(state, Heap0)} :
           Returns("start_turn", NoAction, r)
    /\ UNCHANGED pc

\* FarkleEnv.reset up to its while loop: the first roll of a new game.
EnvReset(rng) ==
    /\ pc = "reset"
    /\ \E r \in {GameState_roll_dice(state, rng, Heap0)} :
           Returns("roll_dice", NoAction, r)
    /\ pc' = "reset_loop"

\* Faulty variant of the loop body: the state apply_action returns is dropped.
EnvFarklePass_result_dropped(rng) ==
    /\ pc \in {"reset_loop", "step_loop"}
    /\ is_farkle(state.turn_state.rolled_dice)
    /\ call' = [call EXCEPT !.op = "farkle_pass", !.action = PassTurnAction,
                            !.pre = state, !.pre_scores = Scores(state)]
    /\ UNCHANGED <<state, heap, pc>>

\* One iteration of `while is_farkle(...): apply_action(state, PassTurnAction())`
\* in reset and in step; each apply_action makes its own rng.
\* The dice source yields farkle rolls only while the game is within the
\* bounds: past them the loop draws a roll that is no farkle.
EnvFarklePass(rng) ==
    /\ pc \in {"reset_loop", "step_loop"}
    /\ is_farkle(state.turn_state.rolled_dice)
    /\ \/ Bounded
       \/ ~is_farkle(rng_choice(rng, state.parameters.max_die_value,
                                state.parameters.max_dice_count))
    /\ \E r \in {apply_action(state, PassTurnAction, rng, Heap0)} :
           Returns("farkle_pass", PassTurnAction, r)
    /\ UNCHANGED pc

\* The loop ends: reset / step returns.
EnvReturn ==
    /\ pc \in {"reset_loop", "step_loop"}
    /\ ~is_farkle(state.turn_state.rolled_dice)
    /\ pc' = "idle"
    /\ UNCHANGED <<state, heap, call>>

\* FarkleEnv.step up to its last while loop.
EnvStep(action, rng) ==
    /\ pc = "idle"
    /\ Bounded
    /\ \E best \in {scorable_patterns_by_length(state.turn_state.rolled_dice)} :
         IF best.err # "none"
         THEN /\ Returns("step", NoAction, Raise(best.err, state, Heap0))
              /\ pc' = "idle"
         ELSE IF is_farkle(state.turn_state.rolled_dice)
         THEN \* `while is_farkle(...): engine_action = PassTurnAction()`
              /\ pc' = "step_spin"
              /\ UNCHANGED <<state, heap, call>>
         ELSE \E engine_action \in {step_engine_action(best.val, action)} :
              \E r \in {apply_action(state, engine_action, rng, Heap0)} :
                /\ Returns("step", engine_action, r)
                /\ pc' = IF r.err # "none" THEN "idle"
                         ELSE IF r.state.winner # None THEN "terminated"
                         ELSE "step_loop"

Params == Parameters(DEFAULT_PLAYER_COUNT, ScoreToWin, MAX_DICE_COUNT, MAX_DIE_VALUE)

NewGame ==
    LET g == GameState_default(Params, [r \in Refs |-> <<>>])
    IN /\ state = g.state
       /\ heap = g.heap
       /\ call = [op |-> "init", action |-> NoAction, err |-> "none",
                  pre |-> g.state, pre_scores |-> g.heap[g.state.player_scores]]

\* GameState(parameters, is_quit=True): a game its caller constructs as quit.
QuitGame ==
    LET g == GameState_default(Params, [r \in Refs |-> <<>>])
        s == [g.state EXCEPT !.is_quit = TRUE]
    IN /\ state = s
       /\ heap = g.heap
       /\ call = [op |-> "init", action |-> NoAction, err |-> "none",
                  pre |-> s, pre_scores |-> g.heap[s.player_scores]]

\* A caller that drives the engine directly.
Init == NewGame /\ pc = "engine"

Next ==
    \/ \E action \in ActionInputs, rng \in Rngs : Apply(action, rng)
    \/ \E pattern \in PatternInputs : SelectPattern(pattern)
    \/ \E rng \in Rngs : RollDice(rng)
    \/ PassTurn
    \/ EndTurn
    \/ StartTurn

Spec == Init /\ [][Next]_vars

\* The same caller, starting from a game that is quit.
QuitInit == QuitGame /\ pc = "engine"

QuitSpec == QuitInit /\ [][Next]_vars

\* The environment: reset, then steps.
EnvInit == NewGame /\ pc = "reset"

EnvNext ==
    \/ \E rng \in EnvRngs : EnvReset(rng)
    \/ \E rng \in EnvRngs : EnvFarklePass(rng)
    \/ EnvReturn
    \/ \E action \in AbstractActionInputs, rng \in EnvRngs : EnvStep(action, rng)

EnvSpec == EnvInit /\ [][EnvNext]_vars

\* reset and step run their loop to its end: an iteration that can be made is
\* made, and a loop whose condition is false is left.
EnvLiveSpec ==
    /\ EnvSpec
    /\ WF_vars(\E rng \in EnvRngs : EnvFarklePass(rng))
    /\ WF_vars(EnvReturn)

\* ----------------------------------------------------------- rules calls
\* The rolls of n dice in ascending order: one roll per multiset of n dice.
SortedRolls(n) ==
    {d \in [1..n -> 1..MAX_DIE_VALUE] : \A i \in 1..(n - 1) : d[i] <= d[i + 1]}

\* The tuples a caller hands to the rules: every multiset of 0 to
\* MAX_DICE_COUNT dice, and the rolls of DiceStreams in the order drawn.
RollInputs ==
    UNION {SortedRolls(n) : n \in 0..MAX_DICE_COUNT}
    \cup {rng_choice(rng, MAX_DIE_VALUE, n) :
              rng \in DOMAIN DiceStreams, n \in 0..MAX_DICE_COUNT}

\* A caller of the rules holds a tuple of dice and calls one function on it;
\* call keeps the function, the tuple and what came back.
RulesCall(op, r) ==
    /\ call' = [call EXCEPT !.op = op, !.err = r.err, !.result = r.val]
    /\ UNCHANGED <<state, heap, pc>>

PatternScore ==
    /\ pc = "rules" /\ call.op = "input"
    /\ RulesCall("pattern_score",
                 [err |-> "none", val |-> pattern_score(call.dice)])

ScorablePatterns ==
    /\ pc = "rules" /\ call.op = "input"
    /\ RulesCall("scorable_patterns",
                 [err |-> "none", val |-> scorable_patterns(call.dice)])

ScorablePatternsByLength ==
    /\ pc = "rules" /\ call.op = "input"
    /\ RulesCall("scorable_patterns_by_length",
                 scorable_patterns_by_length(call.dice))

IsFarkle ==
    /\ pc = "rules" /\ call.op = "input"
    /\ RulesCall("is_farkle", [err |-> "none", val |-> is_farkle(call.dice)])

\* engine.actions on a GameState whose turn holds the tuple as its roll.
RolledState(dice) ==
    IF dice = <<>> THEN state
    ELSE [state EXCEPT !.turn_state = TurnState(Len(dice), 0, dice, TRUE, FALSE)]

Actions ==
    /\ pc = "rules" /\ call.op = "input"
    /\ RulesCall("actions", [err |-> "none", val |-> actions(RolledState(call.dice))])

\* environment.action_mask on a GameState whose turn holds the tuple.
ActionMask ==
    /\ pc = "rules" /\ call.op = "input"
    /\ RulesCall("action_mask", action_mask(RolledState(call.dice)))

RulesInit ==
    /\ \E g \in {GameState_default(Params, [r \in Refs |-> <<>>])} :
           state = g.state /\ heap = g.heap
    /\ pc = "rules"
    /\ \E dice \in RollInputs :
           call = [op |-> "input", dice |-> dice, err |-> "none", result |-> <<>>]

RulesNext ==
    \/ PatternScore
    \/ ScorablePatterns
    \/ ScorablePatternsByLength
    \/ IsFarkle
    \/ Actions
    \/ ActionMask

RulesSpec == RulesInit /\ [][RulesNext]_vars

\* ------------------------------------------------- legal actions and apply
\* Patterns a caller tries in a Continue or a Bank whether the roll has them or
\* not: some of the table, and some that are not in it (no score, not in
\* ascending order, more dice than a roll has).
ProbePatterns ==
    { <<1>>, <<5>>, <<1, 5>>, <<5, 5>>, <<2, 2, 2>>, <<1, 5, 5>>,
      <<1, 2, 3, 4, 5, 6>>, <<1, 1, 1, 1, 1, 1>>,
      <<2>>, <<5, 1>>, <<2, 3>>, <<5, 1, 1>>, <<1, 1, 1, 1, 1, 1, 1>> }

\* The actions a caller tries on state s: those actions(s) lists, and the
\* probes.
ProbeActions(s) ==
    LET listed == actions(s)
    IN {listed[i] : i \in DOMAIN listed}
       \cup {ContinueAction(p) : p \in ProbePatterns}
       \cup {BankAction(p) : p \in ProbePatterns}
       \cup {PassTurnAction, QuitAction}

\* A game in which the first player holds the roll `dice`: 6 dice at turn score
\* 0, or fewer after a Continue with a single 5 for each die set aside.
HoldsRoll(dice) ==
    LET g == GameState_default(Params, [r \in Refs |-> <<>>])
        s == [g.state EXCEPT !.turn_state =
                 TurnState(Len(dice), 50 * (MAX_DICE_COUNT - Len(dice)), dice,
                           TRUE, FALSE)]
    IN /\ state = s
       /\ heap = g.heap
       /\ call = [op |-> "init", action |-> NoAction, err |-> "none",
                  pre |-> s, pre_scores |-> g.heap[s.player_scores]]

\* The caller hands one action to apply_action on the roll it holds.
TryAction(action, rng) ==
    /\ \E r \in {apply_action(state, action, rng, Heap0)} :
           Returns("apply", action, r)
    /\ UNCHANGED pc

LegalInit ==
    /\ pc = "legal"
    /\ \E dice \in RollInputs \ {<<>>} : HoldsRoll(dice)

\* One call per roll held: the state apply_action returns is not probed again.
LegalNext ==
    /\ pc = "legal" /\ call.op = "init"
    /\ \E action \in ProbeActions(state), rng \in {2} : TryAction(action, rng)

LegalSpec == LegalInit /\ [][LegalNext]_vars

\* ------------------------------------------------------------ properties
\* The last call was apply_action with a Continue, Bank or Pass.
AppliedPlay ==
    call.op = "apply" /\ call.action.type \in {"Continue", "Bank", "Pass"}

\* The player whose turn it was when the last call was made, as an index.
Caller == call.pre.current_player + 1

GameWasOver == call.pre.winner # None \/ call.pre.is_quit

MidRoll(ts) == ts.has_rolled /\ ~ts.has_ended

\* C1: whenever apply(state, Bank(p)) brings the banking player's score from
\* below score_to_win to at least score_to_win, the returned state's winner is
\* the player who was current when apply was called.
C1_WinTrigger ==
    (/\ call.op = "apply" /\ call.action.type = "Bank" /\ call.err = "none"
     /\ call.pre_scores[Caller] < call.pre.parameters.score_to_win
     /\ Scores(state)[Caller] >= state.parameters.score_to_win)
    => state.winner = call.pre.current_player

\* A Bank has just taken the banking player from below score_to_win to it.
C1_Witness ==
    /\ call.op = "apply" /\ call.action.type = "Bank" /\ call.err = "none"
    /\ call.pre_scores[Caller] < call.pre.parameters.score_to_win
    /\ Scores(state)[Caller] >= state.parameters.score_to_win
    /\ state.winner = call.pre.current_player

\* C2: once winner is set or is_quit is true, no apply call changes any entry
\* of player_scores.
C2_NoScoreChangeAfterGameOver ==
    (call.op = "apply" /\ GameWasOver) => Scores(state) = call.pre_scores

\* C3: winner is sticky: no engine transition (select, roll, pass, end turn,
\* start turn, apply) unsets a winner or changes it to another player.
C3_WinnerSticky ==
    [][state.winner # None => state'.winner = state.winner]_vars

\* C4: after winner is set or is_quit is true, every apply call (Continue,
\* Bank, Pass or Quit) fails with GameAlreadyOver.
C4_ApplyAfterGameOverFails ==
    (call.op = "apply" /\ GameWasOver) => call.err = "GameAlreadyOver"

\* C5: apply(state, Quit) returns a state with is_quit = true and with
\* player_scores, current_player and winner those of the input state.
C5_QuitSetsIsQuit ==
    (call.op = "apply" /\ call.action.type = "Quit")
    => /\ call.err = "none"
       /\ state.is_quit
       /\ Scores(state) = call.pre_scores
       /\ state.current_player = call.pre.current_player
       /\ state.winner = call.pre.winner

\* C6, as stated: every state returned by a successful apply(Continue / Bank /
\* Pass) with no winner declared has a rolled_dice that is not a farkle.
C6_ApplyNeverReturnsFarkle ==
    (AppliedPlay /\ call.err = "none" /\ state.winner = None)
    => ~is_farkle(state.turn_state.rolled_dice)

\* C6, amended: a successful apply rolls exactly once and does not look at the
\* roll: after Continue the same player, after Bank or Pass the player after
\* the caller, is mid-roll with a roll as the rng drew it, farkle or not.
C6_ApplyRollsOnce ==
    (AppliedPlay /\ call.err = "none")
    => /\ MidRoll(state.turn_state)
       /\ state.current_player =
              IF call.action.type = "Continue" THEN call.pre.current_player
              ELSE (call.pre.current_player + 1) % call.pre.parameters.player_count
       /\ \E rng \in EnvRngs :
              state.turn_state.rolled_dice =
                  rng_choice(rng, MAX_DIE_VALUE, Len(state.turn_state.rolled_dice))
       /\ call.action.type # "Continue" =>
              /\ Len(state.turn_state.rolled_dice) = MAX_DICE_COUNT
              /\ state.turn_state.score = 0

\* apply has just returned, with no winner, a roll that is a farkle.
C6_Witness ==
    /\ AppliedPlay /\ call.err = "none" /\ state.winner = None
    /\ is_farkle(state.turn_state.rolled_dice)

\* C7: actions(state) contains Pass, and Continue(p) and Bank(p) for exactly
\* the patterns p of scorable_patterns(rolled_dice): 1 + 2 * |patterns|
\* entries, and exactly [Pass] on a farkle roll.
C7_LegalActionsExact ==
    call.op = "actions"
    => LET acts == call.result
           pats == scorable_patterns(call.dice)
           legal == {pats[i].pattern : i \in DOMAIN pats}
           Has(a) == \E i \in DOMAIN acts : acts[i] = a
       IN /\ Has(PassTurnAction)
          /\ \A p \in legal : Has(ContinueAction(p)) /\ Has(BankAction(p))
          /\ \A i \in DOMAIN acts :
                 \/ acts[i] = PassTurnAction
                 \/ /\ acts[i].type \in {"Continue", "Bank"}
                    /\ acts[i].pattern \in legal
          /\ Len(acts) = 1 + 2 * Cardinality(legal)
          /\ (legal = {} => acts = <<PassTurnAction>>)

\* The actions of a roll that has several scoring patterns have been listed.
C7_Witness ==
    /\ call.op = "actions"
    /\ Len(call.dice) = MAX_DICE_COUNT
    /\ Len(scorable_patterns(call.dice)) > 1
    /\ Len(call.result) > 3

\* The pattern of the last call scores nothing or is not in the roll.
BadPattern ==
    \/ pattern_score(call.action.pattern) = 0
    \/ ~contains_pattern(call.pre.turn_state.rolled_dice, call.action.pattern)

CallerStateKept ==
    /\ state = [call.pre EXCEPT !.player_scores = state.player_scores]
    /\ Scores(state) = call.pre_scores

\* C8, as stated: apply(Continue(p)) and apply(Bank(p)) fail with
\* InvalidPattern (ValueError) whenever p scores 0 or is not contained in the
\* roll, and the caller's state is unchanged.
C8_BadPatternIsInvalidPattern ==
    (call.op = "apply" /\ call.action.type \in {"Continue", "Bank"} /\ BadPattern)
    => call.err = "ValueError" /\ CallerStateKept

\* C8, amended: such a call always fails and leaves the caller's state
\* unchanged; it fails with InvalidPattern (ValueError) when p scores 0 or the
\* turn is mid-roll, and with InvalidTransition (RuntimeError) when p scores
\* but the turn is not mid-roll.
C8_BadPatternFails ==
    (call.op = "apply" /\ call.action.type \in {"Continue", "Bank"} /\ BadPattern)
    => /\ call.err =
              IF \/ pattern_score(call.action.pattern) = 0
                 \/ MidRoll(call.pre.turn_state)
              THEN "ValueError" ELSE "RuntimeError"
       /\ CallerStateKept

\* A scoring pattern that is not in the roll held has just been refused.
C8_Witness ==
    /\ call.op = "apply" /\ call.action.type \in {"Continue", "Bank"}
    /\ pattern_score(call.action.pattern) > 0
    /\ MidRoll(call.pre.turn_state)
    /\ ~contains_pattern(call.pre.turn_state.rolled_dice, call.action.pattern)
    /\ call.err = "ValueError"

\* C9: apply never mutates its input: after the call, succeeded or failed, the
\* list of scores of the state it was given holds what it held before.
C9_InputNotMutated ==
    call.op = "apply" => heap[call.pre.player_scores] = call.pre_scores

\* A Bank has returned new scores and the input's list still holds the old.
C9_Witness ==
    /\ call.op = "apply" /\ call.action.type = "Bank" /\ call.err = "none"
    /\ Scores(state) # call.pre_scores
    /\ heap[call.pre.player_scores] = call.pre_scores

\* C10: apply(state, Continue(p)), p a scoring pattern of the roll held, returns
\* a state with current_player, player_scores, winner and turn unchanged, the
\* turn score raised by the score of p, has_rolled true, and a roll of
\* |rolled_dice| - |p| dice, 6 when that is 0.
C10_ContinueEffect ==
    (/\ call.op = "apply" /\ call.action.type = "Continue"
     /\ MidRoll(call.pre.turn_state)
     /\ \E i \in DOMAIN scorable_patterns(call.pre.turn_state.rolled_dice) :
            scorable_patterns(call.pre.turn_state.rolled_dice)[i].pattern
                = call.action.pattern)
    => /\ call.err = "none"
       /\ state.current_player = call.pre.current_player
       /\ Scores(state) = call.pre_scores
       /\ state.winner = call.pre.winner
       /\ state.turn = call.pre.turn
       /\ state.turn_state.score =
              call.pre.turn_state.score + pattern_score(call.action.pattern)
       /\ state.turn_state.has_rolled
       /\ Len(state.turn_state.rolled_dice) =
              IF Len(call.pre.turn_state.rolled_dice) = Len(call.action.pattern)
              THEN MAX_DICE_COUNT
              ELSE Len(call.pre.turn_state.rolled_dice) - Len(call.action.pattern)

\* A Continue has used every die of the roll and six dice were rolled anew.
C10_Witness ==
    /\ call.op = "apply" /\ call.action.type = "Continue" /\ call.err = "none"
    /\ Len(call.pre.turn_state.rolled_dice) = Len(call.action.pattern)
    /\ Len(state.turn_state.rolled_dice) = MAX_DICE_COUNT
    /\ state.turn_state.score > call.pre.turn_state.score

\* The pattern of the last call is a scoring pattern of the roll that was held.
LegalPattern ==
    /\ MidRoll(call.pre.turn_state)
    /\ pattern_score(call.action.pattern) > 0
    /\ contains_pattern(call.pre.turn_state.rolled_dice, call.action.pattern)

NextPlayer == (call.pre.current_player + 1) % call.pre.parameters.player_count

\* C11: apply(state, Bank(p)), p a scoring pattern of the roll held, raises the
\* banking player's score by exactly the turn score so far plus the score of p,
\* leaves the other scores alone, and returns the next player current with turn
\* score 0 and a fresh roll of 6 dice; Bank((1,1,1,1,1,1)) of a roll of six 1s
\* at turn score 0 awards exactly 8000.
C11_BankEffect ==
    (call.op = "apply" /\ call.action.type = "Bank" /\ LegalPattern)
    => /\ call.err = "none"
       /\ \A i \in DOMAIN call.pre_scores :
              Scores(state)[i] =
                  IF i = Caller
                  THEN call.pre_scores[i] + call.pre.turn_state.score
                       + pattern_score(call.action.pattern)
                  ELSE call.pre_scores[i]
       /\ state.current_player = NextPlayer
       /\ state.turn_state.score = 0
       /\ state.turn_state.has_rolled
       /\ Len(state.turn_state.rolled_dice) = MAX_DICE_COUNT
       /\ (/\ call.action.pattern = <<1, 1, 1, 1, 1, 1>>
           /\ call.pre.turn_state.score = 0)
          => Scores(state)[Caller] = call.pre_scores[Caller] + 8000

\* The second player has banked six 1s at turn score 0 and holds 8000 more.
C11_Witness ==
    /\ call.op = "apply" /\ call.action.type = "Bank" /\ call.err = "none"
    /\ call.action.pattern = <<1, 1, 1, 1, 1, 1>>
    /\ call.pre.turn_state.score = 0
    /\ Caller = 2
    /\ Scores(state)[Caller] = call.pre_scores[Caller] + 8000
    /\ Len(state.turn_state.rolled_dice) = MAX_DICE_COUNT

\* C12: apply(state, Pass) leaves every entry of player_scores unchanged,
\* whatever the turn score and whether the roll held is a farkle or not, and a
\* successful pass returns the next turn with turn score 0.
C12_PassKeepsScores ==
    (call.op = "apply" /\ call.action.type = "Pass")
    => /\ Scores(state) = call.pre_scores
       /\ call.err = "none" =>
              /\ state.turn_state.score = 0
              /\ state.current_player = NextPlayer

\* A pass has just thrown away a positive turn score.
C12_Witness ==
    /\ call.op = "apply" /\ call.action.type = "Pass" /\ call.err = "none"
    /\ call.pre.turn_state.score > 0
    /\ ~is_farkle(call.pre.turn_state.rolled_dice)
    /\ Scores(state) = call.pre_scores
    /\ state.turn_state.score = 0

\* C13: roll_dice on a turn state with has_rolled true fails with
\* InvalidTransition (RuntimeError), end_turn on such a turn state fails too,
\* and the caller is left with the state it had.
C13_NoRollAfterRoll ==
    (call.op \in {"roll_dice", "end_turn"} /\ call.pre.turn_state.has_rolled)
    => /\ call.err = "RuntimeError"
       /\ CallerStateKept

\* A roll has just been refused on a turn that had already rolled.
C13_Witness ==
    /\ call.op = "roll_dice"
    /\ call.pre.turn_state.has_rolled
    /\ call.err = "RuntimeError"
    /\ state.turn_state.rolled_dice = call.pre.turn_state.rolled_dice

\* C14: after a successful select_pattern, next_roll_dice_count is
\* max_dice_count (6) when the pattern uses every rolled die and
\* |rolled_dice| - |pattern| otherwise, so it is in 1..6 and never 0.
C14_HotDice ==
    (call.op = "select_pattern" /\ call.err = "none")
    => /\ state.turn_state.next_roll_dice_count =
              IF Len(call.action.pattern) = Len(call.pre.turn_state.rolled_dice)
              THEN state.parameters.max_dice_count
              ELSE Len(call.pre.turn_state.rolled_dice) - Len(call.action.pattern)
       /\ state.turn_state.next_roll_dice_count \in 1..MAX_DICE_COUNT

\* A pattern has just been selected that uses all six dice of the roll.
C14_Witness ==
    /\ call.op = "select_pattern" /\ call.err = "none"
    /\ Len(call.action.pattern) = Len(call.pre.turn_state.rolled_dice)
    /\ Len(call.action.pattern) = MAX_DICE_COUNT
    /\ state.turn_state.next_roll_dice_count = MAX_DICE_COUNT

\* ------------------------------------------------- properties of the rules
TableEntries ==
    {scorable_patterns_table[i] : i \in DOMAIN scorable_patterns_table}

\* How many dice of s show v.
CountOf(v, s) == Cardinality({i \in DOMAIN s : s[i] = v})

\* Multiset containment: p needs no die that d does not have.
Contained(p, d) == \A v \in 1..MAX_DIE_VALUE : CountOf(v, p) <= CountOf(v, d)

HasPattern(ps, pattern, score) ==
    \E i \in DOMAIN ps : ps[i] = ScoringPattern(pattern, score)

\* C15: pattern_score is superadditive over multiset union: whenever the
\* tuple scored is the sorted union of two scoring patterns a and b (so
\* |a| + |b| <= 6), its score is at least score(a) + score(b), and the union
\* taken in the other order is the same tuple.
C15_UnionConsistent ==
    call.op = "pattern_score"
    => \A a, b \in TableEntries :
           (/\ Len(a.pattern) + Len(b.pattern) = Len(call.dice)
            /\ sorted(a.pattern \o b.pattern) = call.dice)
           => /\ call.result >= a.score + b.score
              /\ sorted(b.pattern \o a.pattern) = call.dice

\* Six 1s have been scored: the union of (1,1,1) with itself, worth more than
\* the two triples.
C15_Witness ==
    /\ call.op = "pattern_score"
    /\ call.dice = <<1, 1, 1, 1, 1, 1>>
    /\ call.dice = sorted(<<1, 1, 1>> \o <<1, 1, 1>>)
    /\ pattern_score(<<1, 1, 1>>) > 0
    /\ call.result > 2 * pattern_score(<<1, 1, 1>>)

\* C16: scorable_patterns_by_length stores the pattern of length L at slot
\* L - 1 counted from 0: every non-empty slot i holds a pattern of i + 1 dice,
\* and for the roll (1,1,1,5,5,2) slot 2 holds (1,1,1) with 1000.
C16_SlotHoldsLength ==
    (call.op = "scorable_patterns_by_length" /\ call.err = "none")
    => /\ \A L \in DOMAIN call.result :
              call.result[L].pattern # <<>> => Len(call.result[L].pattern) = L
       /\ call.dice = <<1, 1, 1, 5, 5, 2>>
              => call.result[3] = ScoringPattern(<<1, 1, 1>>, 1000)

\* C17: scorable_patterns_by_length returns for every roll of 0 to 6 dice,
\* without failing, 6 entries, and for each length L in 1..6 the entry it
\* returns for L is a scoring pattern of the roll of length L with the highest
\* score among those, or there is none when the roll has no such pattern.
C17_TotalAndMaximal ==
    call.op = "scorable_patterns_by_length"
    => /\ call.err = "none"
       /\ Len(call.result) = MAX_DICE_COUNT
       /\ \A L \in 1..MAX_DICE_COUNT :
              LET legal == {e \in TableEntries :
                               Len(e.pattern) = L /\ Contained(e.pattern, call.dice)}
                  returned == {call.result[i] : i \in
                                  {j \in DOMAIN call.result :
                                       Len(call.result[j].pattern) = L}}
              IN IF legal = {} THEN returned = {}
                 ELSE \E e \in returned :
                          e \in legal /\ \A f \in legal : f.score <= e.score

\* C18, as stated: the scoring patterns of the roll (1,1,1,5,5,2) include
\* (1,1,1) with 1000, (1,) with 100, (5,) with 50 and (1,1,1,5,5) with 1100,
\* and the pair (5,5) scores 0.
C18_PairOfFivesScoresNothing ==
    /\ (call.op = "scorable_patterns" /\ call.dice = <<1, 1, 1, 5, 5, 2>>)
       => /\ HasPattern(call.result, <<1, 1, 1>>, 1000)
          /\ HasPattern(call.result, <<1>>, 100)
          /\ HasPattern(call.result, <<5>>, 50)
          /\ HasPattern(call.result, <<1, 1, 1, 5, 5>>, 1100)
    /\ (call.op = "pattern_score" /\ call.dice = <<5, 5>>) => call.result = 0

\* C18, amended: the scoring patterns of the roll (1,1,1,5,5,2) include
\* (1,1,1) with 1000, (1,) with 100, (5,) with 50, (1,1,1,5,5) with 1100 and
\* the pair (5,5) with 100, the sum of its two single 5s.
C18_PairOfFivesScoresHundred ==
    /\ (call.op = "scorable_patterns" /\ call.dice = <<1, 1, 1, 5, 5, 2>>)
       => /\ HasPattern(call.result, <<1, 1, 1>>, 1000)
          /\ HasPattern(call.result, <<1>>, 100)
          /\ HasPattern(call.result, <<5>>, 50)
          /\ HasPattern(call.result, <<1, 1, 1, 5, 5>>, 1100)
          /\ HasPattern(call.result, <<5, 5>>, 100)
    /\ (call.op = "pattern_score" /\ call.dice = <<5, 5>>) => call.result = 100

\* The scoring patterns of the roll (1,1,1,5,5,2) have been listed.
C18_Witness ==
    /\ call.op = "scorable_patterns"
    /\ call.dice = <<1, 1, 1, 5, 5, 2>>
    /\ HasPattern(call.result, <<1, 1, 1, 5, 5>>, 1100)
    /\ HasPattern(call.result, <<5, 5>>, 100)

\* C19: is_farkle(d) is true exactly when scorable_patterns(d) is empty, that
\* is when d has no 1, no 5, no value three or more times and no straight;
\* the roll (2,3,4,6,3,2) is a farkle.
C19_FarkleIffNoPattern ==
    call.op = "is_farkle"
    => /\ call.result = (scorable_patterns(call.dice) = <<>>)
       /\ call.result =
              (/\ CountOf(1, call.dice) = 0
               /\ CountOf(5, call.dice) = 0
               /\ \A v \in 1..MAX_DIE_VALUE : CountOf(v, call.dice) < 3
               /\ ~Contained(<<1, 2, 3, 4, 5>>, call.dice)
               /\ ~Contained(<<2, 3, 4, 5, 6>>, call.dice))
       /\ call.dice = <<2, 3, 4, 6, 3, 2>> => call.result

\* The roll (2,3,4,6,3,2) has been found to be a farkle.
C19_Witness ==
    /\ call.op = "is_farkle"
    /\ call.dice = <<2, 3, 4, 6, 3, 2>>
    /\ call.result
    /\ scorable_patterns(call.dice) = <<>>

\* C20: scorable_patterns(roll) is exactly the entries of the score table
\* whose multiset is contained in the roll, each with its table score and each
\* once: none is missing and none needs a die the roll does not have.
C20_LegalPatternsExact ==
    call.op = "scorable_patterns"
    => LET returned == {call.result[i] : i \in DOMAIN call.result}
       IN /\ returned = {e \in TableEntries : Contained(e.pattern, call.dice)}
          /\ Len(call.result) = Cardinality(returned)

\* A roll has some table entries as scoring patterns and lacks the dice for
\* others.
C20_Witness ==
    /\ call.op = "scorable_patterns"
    /\ Len(call.dice) = MAX_DICE_COUNT
    /\ Len(call.result) > 3
    /\ \E e \in TableEntries :
           /\ ~Contained(e.pattern, call.dice)
           /\ \A i \in DOMAIN call.result : call.result[i] # e

\* ---------------------------------------------- properties of the engine
\* C23: in every state reached from a default GameState by engine transitions,
\* 0 <= current_player < player_count and player_scores has exactly
\* player_count entries.
C23_CurrentPlayerInRange ==
    /\ state.current_player \in 0..(state.parameters.player_count - 1)
    /\ Len(Scores(state)) = state.parameters.player_count

\* A turn has been started after the last player's: the index wrapped to 0.
C23_Witness ==
    /\ call.op = "start_turn" /\ call.err = "none"
    /\ call.pre.current_player = call.pre.parameters.player_count - 1
    /\ state.current_player = 0

\* C26: select_pattern succeeds only on a turn that has rolled and not ended
\* and with a pattern that has a positive score in the table and is contained
\* in the roll; every other call, a contained tuple that scores nothing
\* included, fails and leaves the turn state as it was.
C26_SelectOnlyLegal ==
    (call.op = "select_pattern" /\ ~LegalPattern)
    => call.err # "none" /\ CallerStateKept

\* C27: a successful select_pattern returns a turn state whose score is the
\* old score plus the pattern's, whose rolled_dice is empty and whose
\* has_rolled and has_ended are false.
C27_SelectClearsDice ==
    (call.op = "select_pattern" /\ call.err = "none" /\ LegalPattern)
    => /\ state.turn_state.score =
              call.pre.turn_state.score + pattern_score(call.action.pattern)
       /\ state.turn_state.rolled_dice = <<>>
       /\ ~state.turn_state.has_rolled
       /\ ~state.turn_state.has_ended

\* C28: a turn state with has_ended true is terminal: roll_dice,
\* select_pattern, pass_turn and end_turn fail on it and no call changes it,
\* except start_turn, which replaces it by a fresh turn.
C28_EndedTurnIsTerminal ==
    [][state.turn_state.has_ended
       => \/ /\ state'.turn_state = state.turn_state
             /\ call'.op \in {"roll_dice", "select_pattern", "pass_turn", "end_turn"}
                    => call'.err = "RuntimeError"
          \/ /\ call'.op = "start_turn"
             /\ state'.turn_state =
                    TurnState(MAX_DICE_COUNT, 0, <<>>, FALSE, FALSE)]_vars

\* A pass has just been refused on a turn that had ended with a turn score.
C28_Witness ==
    /\ call.op = "pass_turn"
    /\ call.pre.turn_state.has_ended
    /\ call.pre.turn_state.score > 0
    /\ call.err = "RuntimeError"
    /\ state.turn_state = call.pre.turn_state

\* C29: pass_turn on a turn that has not ended succeeds, rolled or not, and
\* returns a turn state with score 0, no rolled dice, has_rolled false and
\* has_ended true; on an ended turn it fails.
C29_PassTurnEffect ==
    call.op = "pass_turn"
    => IF call.pre.turn_state.has_ended
       THEN call.err = "RuntimeError" /\ CallerStateKept
       ELSE /\ call.err = "none"
            /\ state.turn_state.score = 0
            /\ state.turn_state.rolled_dice = <<>>
            /\ ~state.turn_state.has_rolled
            /\ state.turn_state.has_ended

\* A turn holding a roll and a positive turn score has just been passed.
C29_Witness ==
    /\ call.op = "pass_turn" /\ call.err = "none"
    /\ call.pre.turn_state.has_rolled
    /\ call.pre.turn_state.score > 0
    /\ state.turn_state.score = 0
    /\ state.turn_state.has_ended

\* C30: end_turn on a turn that has neither ended nor rolled returns a turn
\* state with the turn score unchanged and has_ended true; it fails when
\* has_ended or has_rolled is true.
C30_EndTurnEffect ==
    call.op = "end_turn"
    => IF call.pre.turn_state.has_ended \/ call.pre.turn_state.has_rolled
       THEN call.err = "RuntimeError" /\ CallerStateKept
       ELSE /\ call.err = "none"
            /\ state.turn_state.score = call.pre.turn_state.score
            /\ state.turn_state.has_ended

\* A turn with a positive turn score has just been ended.
C30_Witness ==
    /\ call.op = "end_turn" /\ call.err = "none"
    /\ call.pre.turn_state.score > 0
    /\ state.turn_state.score = call.pre.turn_state.score
    /\ state.turn_state.has_ended

\* ------------------------------------------------- properties of the rules
\* C21: scoring does not depend on the order of the dice: pattern_score,
\* scorable_patterns and scorable_patterns_by_length give for a tuple what
\* they give for the same dice in ascending order.
C21_PermutationInvariant ==
    /\ call.op = "pattern_score"
           => call.result = pattern_score(sorted(call.dice))
    /\ call.op = "scorable_patterns"
           => call.result = scorable_patterns(sorted(call.dice))
    /\ call.op = "scorable_patterns_by_length"
           => [err |-> call.err, val |-> call.result]
                  = scorable_patterns_by_length(sorted(call.dice))

Catalog == {BASE_SCORING_PATTERNS[i] : i \in DOMAIN BASE_SCORING_PATTERNS}

\* The tuple d without one die showing v, and without the dice of c.
RECURSIVE RemoveOne(_, _)
RemoveOne(d, v) ==
    IF d = <<>> THEN <<>>
    ELSE IF Head(d) = v THEN Tail(d)
    ELSE <<Head(d)>> \o RemoveOne(Tail(d), v)

RECURSIVE Minus(_, _)
Minus(d, c) == IF c = <<>> THEN d ELSE Minus(RemoveOne(d, Head(c)), Tail(c))

\* The greatest sum of catalog scores over the partitions of the multiset d
\* into catalog shapes, -1 when d has no such partition.  Every partition has
\* one part that holds the first die of d: that part is taken off first.
RECURSIVE BestPartition(_)
BestPartition(d) ==
    IF d = <<>> THEN 0
    ELSE LET parts == {c \in Catalog :
                          CountOf(Head(d), c.pattern) > 0 /\ Contained(c.pattern, d)}
             rests == {[part |-> c.score, rest |-> BestPartition(Minus(d, c.pattern))] :
                          c \in parts}
             sums == {r.part + r.rest : r \in {q \in rests : q.rest >= 0}}
         IN IF sums = {} THEN -1
            ELSE CHOOSE m \in sums : \A n \in sums : n <= m

\* C24: the score table gives every multiset of 1 to 6 dice that can be
\* partitioned into catalog shapes the greatest sum of catalog scores over all
\* its partitions (any number of parts, repeats allowed), and has no entry for
\* a multiset that cannot be partitioned.
C24_TableIsBestPartition ==
    (/\ call.op = "pattern_score"
     /\ Len(call.dice) >= 1
     /\ call.dice = sorted(call.dice))
    => LET best == BestPartition(call.dice)
       IN /\ DictHas(scorable_patterns_table, call.dice) <=> best >= 0
          /\ call.result = IF best >= 0 THEN best ELSE 0

\* Two triples have been scored as the sum of the two catalog triples.
C24_Witness ==
    /\ call.op = "pattern_score"
    /\ call.dice = <<1, 1, 1, 2, 2, 2>>
    /\ call.result = 1200
    /\ BestPartition(call.dice) = 1200

\* C25: each of the 29 catalog entries scores exactly its catalog value in
\* the table: no sum of shorter shapes forming the same dice replaces it.
C25_CatalogExact ==
    /\ Len(BASE_SCORING_PATTERNS) = 29
    /\ call.op = "pattern_score"
           => \A c \in Catalog : c.pattern = call.dice => call.result = c.score

\* Four 1s have been scored 2000, above the triple and the single they split
\* into.
C25_Witness ==
    /\ call.op = "pattern_score"
    /\ call.dice = <<1, 1, 1, 1>>
    /\ call.result = 2000
    /\ pattern_score(<<1, 1, 1>>) + pattern_score(<<1>>) < call.result

\* C31: roll_dice on a turn that has neither rolled nor ended succeeds with a
\* roll of exactly next_roll_dice_count dice (6 when that count is 0), each die
\* in 1..6, sets has_rolled, and leaves the turn score and has_ended as they
\* were.
C31_RollEffect ==
    (/\ call.op = "roll_dice"
     /\ ~call.pre.turn_state.has_rolled
     /\ ~call.pre.turn_state.has_ended)
    => LET pre == call.pre.turn_state
           ts == state.turn_state
       IN /\ call.err = "none"
          /\ Len(ts.rolled_dice) =
                 IF pre.next_roll_dice_count = 0 THEN MAX_DICE_COUNT
                 ELSE pre.next_roll_dice_count
          /\ \A i \in DOMAIN ts.rolled_dice :
                 ts.rolled_dice[i] \in 1..MAX_DIE_VALUE
          /\ ts.has_rolled
          /\ ts.score = pre.score
          /\ ts.has_ended = pre.has_ended

\* Fewer than six dice have just been rolled on a turn that holds a score.
C31_Witness ==
    /\ call.op = "roll_dice" /\ call.err = "none"
    /\ ~call.pre.turn_state.has_rolled
    /\ call.pre.turn_state.next_roll_dice_count \in 1..(MAX_DICE_COUNT - 1)
    /\ call.pre.turn_state.score > 0
    /\ Len(state.turn_state.rolled_dice) = call.pre.turn_state.next_roll_dice_count
    /\ state.turn_state.score = call.pre.turn_state.score

\* C32: start_turn, and with it every successful apply of a Bank or a Pass,
\* makes (current_player + 1) mod player_count the current player on a fresh
\* turn (6 dice to roll, turn score 0, not ended; not rolled until apply rolls)
\* and raises the turn counter by exactly 1 if and only if that player is 0;
\* the turn counter never goes down and a Continue leaves it alone.
C32_StartTurnEffect ==
    LET started ==
            \/ call.op = "start_turn"
            \/ /\ call.op = "apply" /\ call.err = "none"
               /\ call.action.type \in {"Bank", "Pass"}
    IN /\ started
          => /\ call.err = "none"
             /\ state.current_player = NextPlayer
             /\ state.turn =
                    call.pre.turn + (IF NextPlayer = 0 THEN 1 ELSE 0)
             /\ state.turn_state.next_roll_dice_count = MAX_DICE_COUNT
             /\ state.turn_state.score = 0
             /\ ~state.turn_state.has_ended
       /\ call.op = "start_turn"
          => state.turn_state = TurnState(MAX_DICE_COUNT, 0, <<>>, FALSE, FALSE)
       /\ state.turn >= call.pre.turn
       /\ (call.op = "apply" /\ call.action.type = "Continue")
          => state.turn = call.pre.turn

\* The last player has banked: the first player is current and the turn
\* counter has gone up by one.
C32_Witness ==
    /\ call.op = "apply" /\ call.err = "none" /\ call.action.type = "Bank"
    /\ call.pre.current_player = DEFAULT_PLAYER_COUNT - 1
    /\ state.current_player = 0
    /\ state.turn = call.pre.turn + 1

\* C33: the loop of reset and step that passes on each farkle roll ends at a
\* roll that is no farkle, given that the dice source yields one; each of its
\* iterations is a pass on a farkle that succeeds, makes the next player
\* current on one new roll of 6 dice, and changes no banked score.
C33_FarkleLoopTerminates ==
    /\ [](call.op = "farkle_pass"
           => /\ call.err = "none"
              /\ is_farkle(call.pre.turn_state.rolled_dice)
              /\ state.current_player = NextPlayer
              /\ Scores(state) = call.pre_scores
              /\ state.turn_state.has_rolled
              /\ Len(state.turn_state.rolled_dice) = MAX_DICE_COUNT)
    /\ (pc \in {"reset_loop", "step_loop"})
          ~> (pc = "idle" /\ ~is_farkle(state.turn_state.rolled_dice))

\* The loop has passed on a farkle and has ended on a roll that is none.
C33_Witness ==
    /\ pc = "idle"
    /\ call.op = "farkle_pass" /\ call.err = "none"
    /\ is_farkle(call.pre.turn_state.rolled_dice)
    /\ ~is_farkle(state.turn_state.rolled_dice)
    /\ state.current_player = NextPlayer

\* The patterns of length L that score most among those of length L in ps.
TiedBest(ps, L) ==
    {ps[i].pattern : i \in {k \in DOMAIN ps :
        /\ Len(ps[k].pattern) = L
        /\ \A j \in DOMAIN ps :
               Len(ps[j].pattern) = L => ps[j].score <= ps[k].score}}

\* C34 as claimed: for every roll and every length L, at most one scoring
\* pattern of length L of the roll has the highest score of that length.
C34_NoTiesAtEqualLength ==
    call.op = "scorable_patterns"
    => \A L \in 1..MAX_DICE_COUNT : Cardinality(TiedBest(call.result, L)) <= 1

\* C34, amended: two scoring patterns of one length share the highest score of
\* that length for exactly the rolls of the dice 1,2,2,2,5,5 at length 3:
\* (2,2,2) and (1,5,5) score 200 each, and scorable_patterns lists (2,2,2)
\* first.
C34_OneTie ==
    call.op = "scorable_patterns"
    => \A L \in 1..MAX_DICE_COUNT :
          LET best == TiedBest(call.result, L)
              At(p) == CHOOSE i \in DOMAIN call.result : call.result[i].pattern = p
          IN /\ Cardinality(best) > 1
                <=> (sorted(call.dice) = <<1, 2, 2, 2, 5, 5>> /\ L = 3)
             /\ Cardinality(best) > 1
                => /\ best = {<<2, 2, 2>>, <<1, 5, 5>>}
                   /\ pattern_score(<<2, 2, 2>>) = 200
                   /\ pattern_score(<<1, 5, 5>>) = 200
                   /\ At(<<2, 2, 2>>) < At(<<1, 5, 5>>)

\* The scoring patterns of a roll of 1,2,2,2,5,5 have been listed and two of
\* length 3 score most.
C34_Witness ==
    /\ call.op = "scorable_patterns"
    /\ sorted(call.dice) = <<1, 2, 2, 2, 5, 5>>
    /\ Cardinality(TiedBest(call.result, 3)) = 2

\* C35: every state a successful apply of a Continue, Bank or Pass returns is
\* mid-roll: has_rolled, not has_ended, and a roll of next_roll_dice_count
\* dice, between 1 and 6.  From a mid-roll state roll_dice and end_turn are
\* refused, while pass_turn and the selection of a scoring pattern of the roll
\* go through.
C35_ApplyReturnsMidRoll ==
    /\ (AppliedPlay /\ call.err = "none")
       => /\ MidRoll(state.turn_state)
          /\ Len(state.turn_state.rolled_dice)
                 = state.turn_state.next_roll_dice_count
          /\ state.turn_state.next_roll_dice_count \in 1..MAX_DICE_COUNT
    /\ MidRoll(call.pre.turn_state)
       => /\ call.op \in {"roll_dice", "end_turn"}
             => call.err = "RuntimeError" /\ CallerStateKept
          /\ call.op = "pass_turn" => call.err = "none"
          /\ (call.op = "select_pattern" /\ LegalPattern) => call.err = "none"

\* A Continue has returned a roll of fewer than six dice.
C35_Witness ==
    /\ call.op = "apply" /\ call.action.type = "Continue" /\ call.err = "none"
    /\ MidRoll(state.turn_state)
    /\ state.turn_state.next_roll_dice_count < MAX_DICE_COUNT
    /\ Len(state.turn_state.rolled_dice) = state.turn_state.next_roll_dice_count

\* C36: on a state that holds a roll, apply_action accepts every action that
\* actions(state) lists, and every Continue(p) or Bank(p) that apply_action
\* accepts is listed by actions(state).
C36_LegalActionsAgreeWithApply ==
    (call.op = "apply" /\ MidRoll(call.pre.turn_state))
    => LET acts == actions(call.pre)
           listed == \E i \in DOMAIN acts : acts[i] = call.action
       IN /\ listed => call.err = "none"
          /\ (call.action.type \in {"Continue", "Bank"} /\ call.err = "none")
             => listed

\* A Bank of several dice that actions lists has been accepted.
C36_Witness ==
    /\ call.op = "apply" /\ call.err = "none" /\ call.action.type = "Bank"
    /\ Len(call.action.pattern) > 1
    /\ LET acts == actions(call.pre)
       IN \E i \in DOMAIN acts : acts[i] = call.action

\* C37: no apply lowers a player's banked score; an apply changes at most the
\* entry of the player who was current when it was called, and only when the
\* action is a Bank: Continue and Pass leave player_scores as they were.
C37_ScoresOnlyGrowOnBank ==
    call.op = "apply"
    => /\ DOMAIN Scores(state) = DOMAIN call.pre_scores
       /\ \A i \in DOMAIN call.pre_scores :
              /\ Scores(state)[i] >= call.pre_scores[i]
              /\ i # Caller => Scores(state)[i] = call.pre_scores[i]
       /\ call.action.type # "Bank" => Scores(state) = call.pre_scores
       /\ call.err # "none" => Scores(state) = call.pre_scores

\* The second player has banked while the first player held a score: only the
\* second player's entry has grown.
C37_Witness ==
    /\ call.op = "apply" /\ call.action.type = "Bank" /\ call.err = "none"
    /\ Caller = 2
    /\ call.pre_scores[1] > 0
    /\ Scores(state)[1] = call.pre_scores[1]
    /\ Scores(state)[2] > call.pre_scores[2]

\* C38: select_pattern, roll_dice, pass_turn, end_turn and start_turn return
\* a state with the parameters and the is_quit of the state they were called
\* on: a quit game stays quit.
C38_ParametersAndQuitKept ==
    (/\ call.op \in {"select_pattern", "roll_dice", "pass_turn", "end_turn",
                      "start_turn"}
     /\ call.err = "none")
    => /\ state.parameters = call.pre.parameters
       /\ state.is_quit = call.pre.is_quit

\* C39: action_mask fails on no roll; for each k in 1..6 it gives CONTINUE_k
\* and BANK_k the same value, which is 1 exactly when the roll has a scoring
\* pattern of exactly k dice; and a roll that is no farkle has an action marked
\* valid.
C39_MaskMarksLengths ==
    call.op = "action_mask"
    => /\ call.err = "none"
       /\ Len(call.result) = BANK_6 + 1
       /\ \A k \in 1..MAX_DICE_COUNT :
              LET pats == scorable_patterns(call.dice)
              IN /\ call.result[CONTINUE_1 + k] = call.result[BANK_1 + k]
                 /\ call.result[CONTINUE_1 + k] = 1
                    <=> \E i \in DOMAIN pats : Len(pats[i].pattern) = k
       /\ ~is_farkle(call.dice)
          => \E v \in DOMAIN call.result : call.result[v] = 1

====
